---- MODULE Spec2Model ----
(***************************************************************************)
(* Quiz session engine: SessionService (start_session, submit_answer,      *)
(* get_session_status, complete_session) over DatabaseService (MongoDB     *)
(* quiz_sessions collection) and QuizClient (quiz-generator over HTTP).    *)
(* Every call is a coroutine; each await on the store or on the quiz       *)
(* provider is one step, so calls interleave between their awaits.         *)
(***************************************************************************)
EXTENDS Integers, Sequences, FiniteSets, Bags, TLC

\* ---------------------------------------------------------------- bounds
MaxCalls == 2
MaxSessions == 2
MaxTime == 1

\* ------------------------------------------------------------ data model
\* SessionStatus enum
IN_PROGRESS == "in_progress"
COMPLETED == "completed"
ABANDONED == "abandoned"

\* Optional[datetime] = None, Optional[float] = None
NoTime == -1
NoScore == <<>>

\* strings are sequences of characters
Rome == <<"R", "o", "m", "e">>
rome == <<"r", "o", "m", "e">>
Milan == <<"M", "i", "l", "a", "n">>
TRUEpadded == <<" ", "T", "R", "U", "E", " ">>

\* str.lower() on one character
Capitals == <<"A", "B", "C", "D", "E", "F", "G", "H", "I", "J", "K", "L", "M", "N", "O", "P", "Q", "R", "S", "T", "U", "V", "W", "X", "Y", "Z">>
Smalls == <<"a", "b", "c", "d", "e", "f", "g", "h", "i", "j", "k", "l", "m", "n", "o", "p", "q", "r", "s", "t", "u", "v", "w", "x", "y", "z">>
LowerChar(ch) ==
    IF \E k \in 1..Len(Capitals) : Capitals[k] = ch
    THEN Smalls[CHOOSE k \in 1..Len(Capitals) : Capitals[k] = ch]
    ELSE ch

\* str.lower()
Lower(s) == [k \in 1..Len(s) |-> LowerChar(s[k])]

IsSpace(ch) == ch \in {" ", "\t", "\n"}

\* str.strip(): drop leading and trailing whitespace
RECURSIVE LStrip(_)
LStrip(s) == IF s # <<>> /\ IsSpace(Head(s)) THEN LStrip(Tail(s)) ELSE s

RECURSIVE RStrip(_)
RStrip(s) ==
    IF s # <<>> /\ IsSpace(s[Len(s)]) THEN RStrip(SubSeq(s, 1, Len(s) - 1)) ELSE s

Strip(s) == RStrip(LStrip(s))

\* Question.correct_answer: Union[str, bool]
StrAnswer(s) == [is_bool |-> FALSE, bool |-> FALSE, text |-> s]
BoolAnswer(b) == [is_bool |-> TRUE, bool |-> b, text |-> <<>>]

\* str(question.correct_answer)
Str(ca) ==
    IF ca.is_bool
    THEN (IF ca.bool THEN <<"T", "r", "u", "e">> ELSE <<"F", "a", "l", "s", "e">>)
    ELSE ca.text

\* a verdict that compares without trimming
IsCorrect_NoStrip(user_answer, correct_answer) ==
    Lower(user_answer) = Lower(Str(correct_answer))

\* the verdict of submit_answer
IsCorrect(user_answer, correct_answer) ==
    Lower(Strip(user_answer)) = Lower(Strip(Str(correct_answer)))

\* ------------------------------------------------------- the quiz catalog
\* quiz-generator content: one quiz of two questions, one quiz id unknown
Q1 == "Q1"
QMissing == "QX"
QuizIds == {Q1, QMissing}

\* the JSON documents the quiz-generator serves
QuizData ==
    [q \in {Q1} |->
        [id |-> Q1, book_id |-> "B1",
         questions |-> << [type |-> "multiple_choice", correct_answer |-> StrAnswer(Rome)],
                          [type |-> "boolean", correct_answer |-> BoolAnswer(TRUE)] >>]]

\* Quiz(id=.., book_id=.., questions=.., questions_count=len(quiz_data['questions']))
ParseQuiz(quiz_data) ==
    [id |-> quiz_data.id, book_id |-> quiz_data.book_id,
     questions |-> quiz_data.questions,
     questions_count |-> Len(quiz_data.questions)]

Catalog == [q \in DOMAIN QuizData |-> ParseQuiz(QuizData[q])]

NoQuiz == [id |-> "", book_id |-> "", questions |-> <<>>, questions_count |-> 0]

\* reason phrases of a status line, as the answering server wrote them
ReasonOK == <<"O", "K">>
ReasonNotFound == <<"N", "o", "t", " ", "F", "o", "u", "n", "d">>
ReasonServerError == <<"I", "n", "t", "e", "r", "n", "a", "l", " ", "S", "e", "r", "v", "e", "r", " ", "E", "r", "r", "o", "r">>
ReasonBackendNotFound == <<"B", "a", "c", "k", "e", "n", "d", " ", "N", "o", "t", " ", "F", "o", "u", "n", "d">>

\* what one GET {base_url}/quizzes/{id} ends in: a response (status line and
\* body), or a request that got no response
Response(status, reason, body) ==
    [kind |-> "response", status |-> status, reason |-> reason, body |-> body]
RequestFailed == [kind |-> "request_error", status |-> 0, reason |-> <<>>, body |-> "none"]
NoUpstream == [kind |-> "none", status |-> 0, reason |-> <<>>, body |-> "none"]

\* the quiz document, a document without its questions, 404 for an unknown id;
\* a failing server or gateway, and an unreachable one, for every id
Upstream(quiz_id) ==
    (IF quiz_id \in DOMAIN QuizData
     THEN {Response(200, ReasonOK, "quiz"), Response(200, ReasonOK, "malformed")}
     ELSE {Response(404, ReasonNotFound, "none")})
    \cup {Response(500, ReasonServerError, "none"),
          Response(503, ReasonBackendNotFound, "none"),
          RequestFailed}

\* response.raise_for_status() raises HTTPStatusError
RaisesForStatus(upstream) == upstream.status \notin 200..299

\* a client that reports every HTTP error status as "not found"
get_quiz_ErrorStatusAsNone(upstream) ==
    CASE upstream.kind = "request_error" -> "error"
      [] RaisesForStatus(upstream) -> "notfound"
      [] upstream.body # "quiz" -> "error"
      [] OTHER -> "ok"

\* QuizClient.get_quiz: "ok" for a Quiz, "notfound" for None, "error" for a
\* raised QuizClientError
get_quiz(upstream) ==
    CASE upstream.kind = "request_error" -> "error"
      [] RaisesForStatus(upstream) /\ upstream.status = 404 -> "notfound"
      [] RaisesForStatus(upstream) -> "error"
      [] upstream.body # "quiz" -> "error"
      [] OTHER -> "ok"

\* what one GET /quizzes/{id} can produce: the quiz, HTTP 404, or an error
ProviderOutcomes(quiz_id) == {get_quiz(u) : u \in Upstream(quiz_id)}

\* --------------------------------------------------------------- inputs
Users == {"U1"}
BadId == 0
QuestionIndexes == -1..2
UserAnswers == {rome, TRUEpadded}

\* ------------------------------------------------------------ the store
\* ObjectId.is_valid(session_id)
IsValidId(session_id) == session_id # BadId

\* a session constructed with another status
NewSession_Abandoned(user_id, quiz_id, book_id, t) ==
    [user_id |-> user_id, quiz_id |-> quiz_id, book_id |-> book_id,
     answers |-> <<>>, score |-> NoScore, started_at |-> t,
     completed_at |-> NoTime, status |-> ABANDONED]

\* QuizSession(...) as constructed by start_session
NewSession(user_id, quiz_id, book_id, t) ==
    [user_id |-> user_id, quiz_id |-> quiz_id, book_id |-> book_id,
     answers |-> <<>>, score |-> NoScore, started_at |-> t,
     completed_at |-> NoTime, status |-> IN_PROGRESS]

\* the value of a local that holds no session (get_session returned None)
NoSession ==
    [user_id |-> "", quiz_id |-> "", book_id |-> "",
     answers |-> <<>>, score |-> NoScore, started_at |-> NoTime,
     completed_at |-> NoTime, status |-> "none"]

\* a document start_session persisted in an earlier run of the service
StoredSession == NewSession("U1", Q1, "B1", 0)

\* a stored session whose quiz the catalog no longer has
OrphanSession == NewSession("U1", QMissing, "B1", 0)

\* a document another writer of the collection marked abandoned
AbandonedSession ==
    [user_id |-> "U1", quiz_id |-> Q1, book_id |-> "B1",
     answers |-> <<>>, score |-> NoScore, started_at |-> 0,
     completed_at |-> NoTime, status |-> ABANDONED]

\* Answer records; answered_at is written once and never read, and is left out
NoAnswer == [question_index |-> -1, user_answer |-> <<>>, is_correct |-> FALSE]

RECURSIVE Gcd(_, _)
Gcd(a, b) == IF b = 0 THEN a ELSE Gcd(b, a % b)

\* a score is the exact value of the float, kept as a fraction in lowest terms
Ratio(n, d) == LET g == Gcd(n, d) IN <<n \div g, d \div g>>

CorrectCount(answers) == Cardinality({k \in 1..Len(answers) : answers[k].is_correct})

\* a score that is a fraction of 1 instead of a percentage
calculate_score_NoPercent(answers) ==
    IF Len(answers) = 0 THEN Ratio(0, 1)
    ELSE Ratio(CorrectCount(answers), Len(answers))

\* SessionService.calculate_score
calculate_score(answers) ==
    IF Len(answers) = 0 THEN Ratio(0, 1)
    ELSE Ratio(CorrectCount(answers) * 100, Len(answers))


\* ------------------------------------------------------ store operations
\* DatabaseService.get_session: None for an invalid or unknown id
db_get_session(st, session_id) ==
    IF IsValidId(session_id) /\ session_id \in DOMAIN st THEN st[session_id] ELSE NoSession

\* a create that inserts the document twice
db_create_session_Twice(st, session) == Append(Append(st, session), session)

\* DatabaseService.create_session: insert_one, the store assigns the id
db_create_session(st, session) == Append(st, session)

\* an update that puts the new answer at the head of the list
db_add_answer_Prepend(st, session_id, answer) ==
    IF IsValidId(session_id) /\ session_id \in DOMAIN st
    THEN [st EXCEPT ![session_id].answers = <<answer>> \o @]
    ELSE st

\* DatabaseService.add_answer: update_one({_id}, {$push: {answers: answer}})
db_add_answer(st, session_id, answer) ==
    IF IsValidId(session_id) /\ session_id \in DOMAIN st
    THEN [st EXCEPT ![session_id].answers = Append(@, answer)]
    ELSE st

\* $set that leaves completed_at out
CompletedDoc_NoTimestamp(doc, score, t) ==
    [doc EXCEPT !.score = score, !.status = COMPLETED]

\* $set that writes the status alone
CompletedDoc_StatusOnly(doc, score, t) == [doc EXCEPT !.status = COMPLETED]

\* the document after $set {score, completed_at, status} of complete_session
CompletedDoc(doc, score, t) ==
    [doc EXCEPT !.score = score, !.completed_at = t, !.status = COMPLETED]

\* the filter of complete_session's update_one: {"_id": ObjectId(session_id)}
CompleteFilter(doc) == TRUE

\* an update that ignores the id and completes every stored session
db_complete_session_Many(st, session_id, score, t) ==
    [s \in DOMAIN st |-> CompletedDoc(st[s], score, t)]

\* DatabaseService.complete_session: update_one(filter, $set)
db_complete_session(st, session_id, score, t) ==
    IF IsValidId(session_id) /\ session_id \in DOMAIN st /\ CompleteFilter(st[session_id])
    THEN [st EXCEPT ![session_id] = CompletedDoc(@, score, t)]
    ELSE st

\* a read that reaches the collection whatever the id looks like
ReadFails_AnyId(store_ok, session_id) == ~store_ok

\* a read of the collection raises: only a well-formed id reaches find_one
ReadFails(store_ok, session_id) == ~store_ok /\ IsValidId(session_id)

\* result.modified_count > 0: the update matched a document and changed it
Modified(st, st2) == st2 # st

\* ---------------------------------------------------------- call results
SessionNotFound == "SessionNotFound"            \* "Session {id} not found"
SessionNotActive == "SessionNotActive"          \* "Session {id} is not in progress"
QuizNotFound == "QuizNotFound"                  \* "Quiz {id} not found"
InvalidQuestionIndex == "InvalidQuestionIndex"  \* "Invalid question index: {i}"
DuplicateAnswer == "DuplicateAnswer"            \* "Question {i} already answered"
CompletionConflict == "CompletionConflict"      \* "Failed to update session {id}"
UpstreamUnavailable == "UpstreamUnavailable"    \* wrapped QuizClientError
StoreUnavailable == "StoreUnavailable"          \* wrapped store exception
Unexpected == "Unexpected"                      \* any other wrapped exception

NoResult ==
    [outcome |-> "pending", error |-> "", session_id |-> -1, quiz_id |-> "",
     status |-> "", is_correct |-> FALSE, correct_answer |-> <<>>, score |-> NoScore,
     questions_answered |-> 0, total_questions |-> 0,
     started_at |-> NoTime, completed_at |-> NoTime]

\* raise SessionServiceError(...)
Fail(kind) == [NoResult EXCEPT !.outcome = "error", !.error = kind]

IdleCall ==
    [op |-> "idle", pc |-> "idle", session_id |-> -1, quiz_id |-> "", user_id |-> "",
     question_index |-> -1, user_answer |-> <<>>,
     session |-> NoSession, quiz |-> NoQuiz.id, answer |-> NoAnswer, final_score |-> NoScore,
     writes |-> 0, quiz_calls |-> 0, provider |-> "", success |-> "",
     store_error |-> FALSE, step |-> "", result |-> NoResult]

\* ----------------------------------------------------------------- state
VARIABLES
    store,      \* quiz_sessions collection: store[id] is the document with _id = id
    calls,      \* the bag of engine calls: arguments, position, locals and result
    now,        \* the last instant datetime.utcnow() returned
    raced       \* history: <<session, index>> pairs submitted by overlapping calls

vars == <<store, calls, now, raced>>

\* the store holds nothing, or a document persisted before the service started
Init ==
    /\ store \in {<<>>, <<StoredSession>>, <<OrphanSession>>, <<AbandonedSession>>}
    /\ calls = EmptyBag
    /\ now = 0
    /\ raced = {}

\* the ids a caller can present: malformed, stored, or not stored
SessionIds == {BadId} \cup (1..(Len(store) + 1))

\* the calls in flight or returned
Calls == BagToSet(calls)

\* the number of start_session calls about to insert a document
Creating ==
    BagCardinality([d \in {x \in Calls : x.pc = "create_session"} |-> calls[d]])

\* a further call can be taken
CanInvoke == BagCardinality(calls) < MaxCalls

\* a new call enters with the state it has at its first await's return
Invoke(r) == calls' = calls (+) SetToBag({r})

\* call r moves on to r2
Step(r, r2) == calls' = (calls (-) SetToBag({r})) (+) SetToBag({r2})

\* the call returns or raises; step keeps the position it did so from
Returned(fields, result) ==
    [fields EXCEPT !.pc = "done", !.step = fields.pc, !.result = result]

\* a store exception that is turned into a result
StoreError_Swallowed == [NoResult EXCEPT !.outcome = "ok"]

\* a store exception, re-raised by the store layer and wrapped by the
\* operation's `except Exception` into a SessionServiceError
StoreError == Fail(StoreUnavailable)

\* a store call of the operation raised
Raised(fields) == Returned([fields EXCEPT !.store_error = TRUE], StoreError)

At(fields, pc) == [fields EXCEPT !.pc = pc]

\* one quiz_client.get_quiz(quiz_id): the Quiz, or NoQuiz for HTTP 404
GetQuiz(quiz_id, outcome) == IF outcome = "ok" THEN Catalog[quiz_id] ELSE NoQuiz

\* the local `quiz` of a call, kept by its id: the Quiz it names
Quiz(id) == IF id \in DOMAIN Catalog THEN Catalog[id] ELSE NoQuiz

\* datetime.utcnow(): some instant not before the last one read
UtcNow == now..MaxTime

\* --------------------------------------------------------- start_session
\* quiz lookup of start_session that lets a missing quiz through
StartFailure_NoNotFoundCheck(outcome) ==
    CASE outcome = "error" -> UpstreamUnavailable
      [] OTHER -> ""

\* quiz lookup of start_session that reports a provider error as a missing quiz
StartFailure_ErrorAsNotFound(outcome) ==
    CASE outcome = "error" -> QuizNotFound
      [] outcome = "notfound" -> QuizNotFound
      [] OTHER -> ""

\* the failure start_session raises once the quiz lookup returned, "" for none:
\* QuizClientError -> "Failed to verify quiz", `if not quiz` -> "Quiz ... not found"
StartFailure(outcome) ==
    CASE outcome = "error" -> UpstreamUnavailable
      [] outcome = "notfound" -> QuizNotFound
      [] OTHER -> ""

\* start_session up to the end of `await quiz_client.get_quiz`
start_session_get_quiz ==
    /\ CanInvoke
    /\ Len(store) + Creating < MaxSessions
    /\ \E user_id \in Users, quiz_id \in QuizIds :
       \E outcome \in ProviderOutcomes(quiz_id) :
          LET quiz == GetQuiz(quiz_id, outcome)
              inv == [IdleCall EXCEPT !.op = "start", !.user_id = user_id,
                                      !.quiz_id = quiz_id, !.quiz = quiz.id, !.quiz_calls = 1,
                                      !.provider = outcome]
              failure == StartFailure(outcome)
          IN  CASE failure # "" ->
                     Invoke(Returned(inv, Fail(failure))) /\ UNCHANGED now
                [] OTHER ->
                     \E t \in UtcNow :
                        /\ now' = t
                        /\ Invoke(At([inv EXCEPT !.session =
                                        NewSession(user_id, quiz_id, quiz.book_id, t)],
                                     "create_session"))
    /\ UNCHANGED <<store, raced>>

\* `await db_service.create_session(session)` and the response
start_session_create(r) ==
    /\ r.op = "start" /\ r.pc = "create_session"
    /\ \E store_ok \in BOOLEAN :
          IF store_ok
          THEN /\ store' = db_create_session(store, r.session)
               /\ Step(r, Returned([r EXCEPT !.writes = @ + 1, !.session_id = Len(store')],
                         [NoResult EXCEPT !.outcome = "ok",
                                          !.session_id = Len(store'),
                                          !.quiz_id = r.quiz_id,
                                          !.total_questions = Quiz(r.quiz).questions_count,
                                          !.status = IN_PROGRESS,
                                          !.started_at = r.session.started_at]))
          ELSE /\ Step(r, Raised([r EXCEPT !.writes = @ + 1]))
               /\ UNCHANGED store
    /\ UNCHANGED <<now, raced>>

\* --------------------------------------------------------- submit_answer
\* another submit on the same session and index has read and not yet appended
Overlaps(session_id, question_index) ==
    \E d \in Calls :
        /\ d.op = "submit" /\ d.pc \in {"get_quiz", "add_answer"}
        /\ d.session_id = session_id
        /\ d.question_index = question_index

\* status check of submit_answer without the abandoned status
SubmitNotActive_OnlyCompleted(session) == session.status = COMPLETED

\* `if session.status != SessionStatus.IN_PROGRESS` of submit_answer
SubmitNotActive(session) == session.status # IN_PROGRESS

\* submit_answer up to the status check: `await db_service.get_session`
submit_answer_get_session ==
    /\ CanInvoke
    /\ \E session_id \in SessionIds, question_index \in QuestionIndexes,
          user_answer \in UserAnswers, store_ok \in BOOLEAN :
          LET session == db_get_session(store, session_id)
              inv == [IdleCall EXCEPT !.op = "submit", !.session_id = session_id,
                                      !.question_index = question_index,
                                      !.user_answer = user_answer]
          IN  /\ CASE ReadFails(store_ok, session_id) ->
                        Invoke(Raised(inv))
                   [] ~ReadFails(store_ok, session_id) /\ session = NoSession ->
                        Invoke(Returned(inv, Fail(SessionNotFound)))
                   [] ~ReadFails(store_ok, session_id) /\ session # NoSession
                         /\ SubmitNotActive(session) ->
                        Invoke(Returned([inv EXCEPT !.session = session],
                                        Fail(SessionNotActive)))
                   [] OTHER -> Invoke(At([inv EXCEPT !.session = session], "get_quiz"))
              /\ raced' = IF ~ReadFails(store_ok, session_id) /\ Overlaps(session_id, question_index)
                          THEN raced \cup {<<session_id, question_index>>}
                          ELSE raced
    /\ UNCHANGED <<store, now>>

\* range check without the negative side
IndexInRange_NoNegative(question_index, quiz) ==
    ~(question_index >= Len(quiz.questions))

\* range check with the upper side off by one
IndexInRange_OffByOne(question_index, quiz) ==
    ~(question_index < 0 \/ question_index > Len(quiz.questions))

\* the range check passes: not (index < 0 or index >= len(quiz.questions))
IndexInRange(question_index, quiz) ==
    ~(question_index < 0 \/ question_index >= Len(quiz.questions))

\* duplicate check that finds nothing
ExistingAnswer_None(session, question_index) == FALSE

\* next(answer for answer in session.answers if answer.question_index == i)
ExistingAnswer(session, question_index) ==
    \E k \in 1..Len(session.answers) : session.answers[k].question_index = question_index

\* the checks with the duplicate check ahead of the quiz lookup
SubmitChecks_DuplicateFirst(session, outcome, quiz, question_index) ==
    CASE ExistingAnswer(session, question_index) -> DuplicateAnswer
      [] outcome = "error" -> UpstreamUnavailable
      [] outcome = "notfound" -> QuizNotFound
      [] ~IndexInRange(question_index, quiz) -> InvalidQuestionIndex
      [] OTHER -> ""

\* the checks without the duplicate check
SubmitChecks_NoDuplicateCheck(session, outcome, quiz, question_index) ==
    CASE outcome = "error" -> UpstreamUnavailable
      [] outcome = "notfound" -> QuizNotFound
      [] ~IndexInRange(question_index, quiz) -> InvalidQuestionIndex
      [] OTHER -> ""

\* the checks with a missing quiz degraded to a quiz of no questions
SubmitChecks_Degrade(session, outcome, quiz, question_index) ==
    CASE outcome = "error" -> UpstreamUnavailable
      [] ~IndexInRange(question_index, quiz) -> InvalidQuestionIndex
      [] ExistingAnswer(session, question_index) -> DuplicateAnswer
      [] OTHER -> ""

\* the failure submit_answer raises once the quiz lookup returned, "" for none
SubmitChecks(session, outcome, quiz, question_index) ==
    CASE outcome = "error" -> UpstreamUnavailable
      [] outcome = "notfound" -> QuizNotFound
      [] ~IndexInRange(question_index, quiz) -> InvalidQuestionIndex
      [] ExistingAnswer(session, question_index) -> DuplicateAnswer
      [] OTHER -> ""

\* quiz.questions[i] raises IndexError
IndexError(questions, i) == i >= Len(questions) \/ i < -Len(questions)

\* quiz.questions[i]: a negative index counts from the end
PyIndex(questions, i) == questions[IF i < 0 THEN Len(questions) + i + 1 ELSE i + 1]

\* an Answer that carries the normalized text
MakeAnswer_Normalized(question_index, user_answer, is_correct) ==
    [question_index |-> question_index, user_answer |-> Lower(Strip(user_answer)),
     is_correct |-> is_correct]

\* Answer(question_index, user_answer, is_correct, answered_at=utcnow())
MakeAnswer(question_index, user_answer, is_correct) ==
    [question_index |-> question_index, user_answer |-> user_answer,
     is_correct |-> is_correct]

\* `await quiz_client.get_quiz`, the index and duplicate checks, the verdict
submit_answer_get_quiz(r) ==
    /\ r.op = "submit" /\ r.pc = "get_quiz"
    /\ \E outcome \in ProviderOutcomes(r.session.quiz_id) :
          LET quiz == GetQuiz(r.session.quiz_id, outcome)
              me == [r EXCEPT !.quiz = quiz.id, !.quiz_calls = @ + 1, !.provider = outcome]
              i == me.question_index
              failure == SubmitChecks(me.session, outcome, quiz, i)
          IN  CASE failure # "" -> Step(r, Returned(me, Fail(failure)))
                [] failure = "" /\ IndexError(quiz.questions, i) ->
                     Step(r, Returned(me, Fail(Unexpected)))
                [] OTHER ->
                     Step(r, At([me EXCEPT !.answer =
                                   MakeAnswer(i, me.user_answer,
                                              IsCorrect(me.user_answer,
                                                        PyIndex(quiz.questions, i).correct_answer))],
                                "add_answer"))
    /\ UNCHANGED <<store, now, raced>>

\* `await db_service.add_answer(session_id, answer)`
submit_answer_add_answer(r) ==
    /\ r.op = "submit" /\ r.pc = "add_answer"
    /\ \E store_ok \in BOOLEAN :
          IF store_ok
          THEN /\ store' = db_add_answer(store, r.session_id, r.answer)
               /\ Step(r, At([r EXCEPT !.writes = @ + 1], "refetch"))
          ELSE /\ Step(r, Raised([r EXCEPT !.writes = @ + 1]))
               /\ UNCHANGED store
    /\ UNCHANGED <<now, raced>>

\* an answer list taken from the session read before the append
ScoredAnswers_Stale(session, updated_session) == session.answers

\* the answer list submit_answer scores and counts: updated_session.answers
ScoredAnswers(session, updated_session) == updated_session.answers

\* a handler that removes the appended answer again before re-raising
AfterFailure_RolledBack(st, r) ==
    [st EXCEPT ![r.session_id].answers = SelectSeq(@, LAMBDA a : a # r.answer)]

\* the store after submit_answer's `except` clauses ran: they log and re-raise,
\* and issue no store call
AfterFailure(st, r) == st

\* `updated_session = await db_service.get_session`, the score, the response
submit_answer_refetch(r) ==
    /\ r.op = "submit" /\ r.pc = "refetch"
    /\ \E store_ok \in BOOLEAN :
          LET updated_session == db_get_session(store, r.session_id)
              question == PyIndex(Quiz(r.quiz).questions, r.question_index)
              answers == ScoredAnswers(r.session, updated_session)
          IN  IF ~store_ok
              THEN Step(r, Raised(r)) /\ store' = AfterFailure(store, r)
              ELSE IF updated_session = NoSession
              THEN Step(r, Returned(r, Fail(Unexpected))) /\ store' = AfterFailure(store, r)
              ELSE /\ Step(r, Returned(r,
                          [NoResult EXCEPT !.outcome = "ok",
                               !.is_correct = r.answer.is_correct,
                               !.correct_answer = Str(question.correct_answer),
                               !.score = calculate_score(answers),
                               !.questions_answered = Len(answers),
                               !.total_questions = Len(Quiz(r.quiz).questions)]))
                   /\ UNCHANGED store
    /\ UNCHANGED <<now, raced>>

\* ---------------------------------------------------- get_session_status
\* `if not session` of get_session_status that never fires
StatusMissing_Never(session) == FALSE

\* `if not session` of get_session_status
StatusMissing(session) == session = NoSession

\* a status score that is always the persisted one
StatusScore_AlwaysPersisted(session) == session.score

\* a status score that changes once a get-status call has been served
StatusScore_NotRepeatable(session) ==
    IF \E d \in Calls : d.op = "status" /\ d.pc = "done"
    THEN Ratio(100, 1)
    ELSE calculate_score(session.answers)

\* session.score if session.score is not None else calculate_score(session.answers)
StatusScore(session) ==
    IF session.score # NoScore THEN session.score ELSE calculate_score(session.answers)

\* get_session_status up to the end of `await db_service.get_session`
get_session_status_get_session ==
    /\ CanInvoke
    /\ \E session_id \in SessionIds, store_ok \in BOOLEAN :
          LET session == db_get_session(store, session_id)
              inv == [IdleCall EXCEPT !.op = "status", !.session_id = session_id]
          IN  CASE ReadFails(store_ok, session_id) ->
                        Invoke(Raised(inv))
                [] ~ReadFails(store_ok, session_id) /\ StatusMissing(session) ->
                     Invoke(Returned(inv, Fail(SessionNotFound)))
                [] OTHER -> Invoke(At([inv EXCEPT !.session = session], "get_quiz"))
    /\ UNCHANGED <<store, now, raced>>

\* `await quiz_client.get_quiz` and the response
get_session_status_get_quiz(r) ==
    /\ r.op = "status" /\ r.pc = "get_quiz"
    /\ \E outcome \in ProviderOutcomes(r.session.quiz_id) :
          LET quiz == GetQuiz(r.session.quiz_id, outcome)
              me == [r EXCEPT !.quiz = quiz.id, !.quiz_calls = @ + 1, !.provider = outcome]
              session == me.session
          IN  IF outcome = "error"
              THEN Step(r, Returned(me, Fail(UpstreamUnavailable)))
              ELSE Step(r, Returned(me,
                          [NoResult EXCEPT !.outcome = "ok",
                               !.session_id = me.session_id,
                               !.quiz_id = session.quiz_id,
                               !.status = session.status,
                               !.score = StatusScore(session),
                               !.questions_answered = Len(session.answers),
                               !.total_questions = Len(quiz.questions),
                               !.started_at = session.started_at,
                               !.completed_at = session.completed_at]))
    /\ UNCHANGED <<store, now, raced>>

\* ------------------------------------------------------ complete_session
\* status check of complete_session without the abandoned status
CompleteNotActive_OnlyCompleted(session) == session.status = COMPLETED

\* `if session.status != SessionStatus.IN_PROGRESS` of complete_session
CompleteNotActive(session) == session.status # IN_PROGRESS

\* complete_session up to the final score: `await db_service.get_session`
complete_session_get_session ==
    /\ CanInvoke
    /\ \E session_id \in SessionIds, store_ok \in BOOLEAN :
          LET session == db_get_session(store, session_id)
              inv == [IdleCall EXCEPT !.op = "complete", !.session_id = session_id]
          IN  CASE ReadFails(store_ok, session_id) ->
                        Invoke(Raised(inv))
                [] ~ReadFails(store_ok, session_id) /\ session = NoSession ->
                     Invoke(Returned(inv, Fail(SessionNotFound)))
                [] ~ReadFails(store_ok, session_id) /\ session # NoSession
                      /\ CompleteNotActive(session) ->
                     Invoke(Returned([inv EXCEPT !.session = session],
                                     Fail(SessionNotActive)))
                [] OTHER ->
                     Invoke(At([inv EXCEPT !.session = session,
                                           !.final_score = calculate_score(session.answers)],
                               "db_complete"))
    /\ UNCHANGED <<store, now, raced>>

\* a completion that ignores what the store reported
CompleteFailure_Ignored(success) == ""

\* `if not success: raise SessionServiceError("Failed to update session ...")`
CompleteFailure(success) == IF ~success THEN CompletionConflict ELSE ""

\* `success = await db_service.complete_session(session_id, final_score)`
complete_session_update(r) ==
    /\ r.op = "complete" /\ r.pc = "db_complete"
    /\ \E store_ok \in BOOLEAN, t \in UtcNow :
          LET st2 == db_complete_session(store, r.session_id, r.final_score, t)
              success == Modified(store, st2)
              me == [r EXCEPT !.writes = @ + 1]
              got == [me EXCEPT !.success = IF success THEN "true" ELSE "false"]
          IN  CASE ~store_ok ->
                     /\ Step(r, Raised(me))
                     /\ UNCHANGED <<store, now>>
                [] store_ok /\ CompleteFailure(success) # "" ->
                     /\ Step(r, Returned(got, Fail(CompleteFailure(success))))
                     /\ store' = st2 /\ now' = t
                [] OTHER ->
                     /\ Step(r, At(got, "get_quiz"))
                     /\ store' = st2 /\ now' = t
    /\ UNCHANGED raced

\* `await quiz_client.get_quiz`, completion_time = utcnow(), the response
complete_session_get_quiz(r) ==
    /\ r.op = "complete" /\ r.pc = "get_quiz"
    /\ \E outcome \in ProviderOutcomes(r.session.quiz_id) :
          LET quiz == GetQuiz(r.session.quiz_id, outcome)
              me == [r EXCEPT !.quiz = quiz.id, !.quiz_calls = @ + 1, !.provider = outcome]
          IN  IF outcome = "error"
              THEN Step(r, Returned(me, Fail(UpstreamUnavailable))) /\ UNCHANGED now
              ELSE \E completion_time \in UtcNow :
                      /\ now' = completion_time
                      /\ Step(r, Returned(me,
                                [NoResult EXCEPT !.outcome = "ok",
                                     !.session_id = me.session_id,
                                     !.score = me.final_score,
                                     !.questions_answered = Len(me.session.answers),
                                     !.total_questions = Len(quiz.questions),
                                     !.completed_at = completion_time,
                                     !.status = COMPLETED]))
    /\ UNCHANGED <<store, raced>>

\* ------------------------------------------------------------ the system
Next ==
    \/ start_session_get_quiz
    \/ \E r \in Calls : start_session_create(r)
    \/ submit_answer_get_session
    \/ \E r \in Calls : submit_answer_get_quiz(r)
    \/ \E r \in Calls : submit_answer_add_answer(r)
    \/ \E r \in Calls : submit_answer_refetch(r)
    \/ get_session_status_get_session
    \/ \E r \in Calls : get_session_status_get_quiz(r)
    \/ complete_session_get_session
    \/ \E r \in Calls : complete_session_update(r)
    \/ \E r \in Calls : complete_session_get_quiz(r)

Spec == Init /\ [][Next]_vars

\* ================================================================ claims
\* the number of calls in the bag that satisfy P
CountCalls(P(_)) == BagCardinality([d \in {x \in Calls : P(x)} |-> calls[d]])

Done(r) == r.pc = "done"
Succeeded(r) == Done(r) /\ r.result.outcome = "ok"
FailedWith(r, kind) == Done(r) /\ r.result.outcome = "error" /\ r.result.error = kind

\* the number of entries of an answer list at question index i
EntriesAt(answers, i) == Cardinality({k \in 1..Len(answers) : answers[k].question_index = i})

\* the question indexes an answer list holds
IndexesOf(answers) == {answers[k].question_index : k \in 1..Len(answers)}

\* the number of questions of the quiz a stored session refers to
TotalQuestions(session) == Len(Catalog[session.quiz_id].questions)

\* C1: for every session, at most one complete-session call ever returns
\* success, whatever the interleaving of the completions.
C1_AtMostOneCompletionSucceeds ==
    \A s \in DOMAIN store :
        LET Won(r) == r.op = "complete" /\ Succeeded(r) /\ r.session_id = s
        IN  CountCalls(Won) <= 1

\* C2 as stated: in every reachable state a stored session holds at most one
\* answer per question index, under any interleaving of submit-answer calls.
C2_AtMostOneAnswerPerIndex ==
    \A s \in DOMAIN store : \A i \in QuestionIndexes :
        EntriesAt(store[s].answers, i) <= 1

\* C2 as amended: a stored session holds at most one answer per question
\* index unless two submit-answer calls for that session and index overlapped,
\* one reading the session while the other had read it and not yet appended.
C2_AtMostOneAnswerPerIndexUnlessRaced ==
    \A s \in DOMAIN store : \A i \in QuestionIndexes :
        <<s, i>> \notin raced => EntriesAt(store[s].answers, i) <= 1

\* C2 witness: a second submit to an answered index came after the first had
\* appended, was rejected, and the index holds its one answer.
C2_Witness ==
    \E r \in Calls : \E s \in DOMAIN store :
        /\ r.op = "submit" /\ FailedWith(r, DuplicateAnswer) /\ r.session_id = s
        /\ <<s, r.question_index>> \notin raced
        /\ EntriesAt(store[s].answers, r.question_index) = 1

\* C3: once a stored session is completed, no step changes its score or its
\* completed_at.
C3_CompletedScoreNeverChanges ==
    [][\A s \in DOMAIN store :
          store[s].status = COMPLETED =>
             /\ store'[s].score = store[s].score
             /\ store'[s].completed_at = store[s].completed_at]_vars

\* C4: every stored in_progress session has no score and no completed_at, and
\* every stored completed session has both.
C4_ScoreSetIffCompleted ==
    \A s \in DOMAIN store :
        /\ store[s].status = IN_PROGRESS =>
              store[s].score = NoScore /\ store[s].completed_at = NoTime
        /\ store[s].status = COMPLETED =>
              store[s].score # NoScore /\ store[s].completed_at # NoTime

\* C4 witness: a session a complete-session call completed, with answers.
C4_Witness ==
    \E s \in DOMAIN store :
        /\ store[s].status = COMPLETED
        /\ Len(store[s].answers) > 0
        /\ \E r \in Calls : r.op = "complete" /\ r.session_id = s /\ Succeeded(r)

\* C5: a new document starts in_progress; the only status change of a stored
\* document is in_progress -> completed, made by the store update of a
\* complete-session call; no document is removed.
C5_OnlyCompletionChangesStatus ==
    [][/\ DOMAIN store \subseteq DOMAIN store'
       /\ \A s \in DOMAIN store' \ DOMAIN store : store'[s].status = IN_PROGRESS
       /\ \A s \in DOMAIN store :
             store'[s].status # store[s].status =>
                /\ store[s].status = IN_PROGRESS
                /\ store'[s].status = COMPLETED
                /\ \E r \in Calls :
                      /\ r.op = "complete" /\ r.pc = "db_complete" /\ r.session_id = s
                      /\ CopiesIn(r, calls') < CopiesIn(r, calls)]_vars

\* C5 witness: a session created by start-session and then completed.
C5_Witness ==
    \E s \in DOMAIN store :
        /\ store[s].status = COMPLETED
        /\ \E r \in Calls : r.op = "start" /\ Succeeded(r) /\ r.result.session_id = s
        /\ \E r \in Calls : r.op = "complete" /\ Succeeded(r) /\ r.session_id = s

\* 0 <= i < n
InRange(i, n) == 0 <= i /\ i < n

\* an answer list holds an entry at question index i
Answered(answers, i) == EntriesAt(answers, i) > 0

\* the failure a returned submit-answer call reports is that of check 3
QuizFailure(r) == FailedWith(r, QuizNotFound) \/ FailedWith(r, UpstreamUnavailable)

\* C6: a returned submit-answer call reports the first violated precondition
\* in the order session exists, status in_progress, quiz resolves, index in
\* range, index not yet answered, and succeeds when none is violated (a store
\* failure aside); the quiz provider is not consulted when check 1 or 2 fails.
C6_FirstViolatedPreconditionReported ==
    \A r \in Calls :
        (r.op = "submit" /\ Done(r) /\ ~FailedWith(r, StoreUnavailable)) =>
            IF r.session = NoSession
            THEN FailedWith(r, SessionNotFound) /\ r.quiz_calls = 0
            ELSE IF r.session.status # IN_PROGRESS
            THEN FailedWith(r, SessionNotActive) /\ r.quiz_calls = 0
            ELSE IF Quiz(r.quiz) = NoQuiz
            THEN QuizFailure(r) /\ r.quiz_calls = 1
            ELSE IF ~InRange(r.question_index, Len(Quiz(r.quiz).questions))
            THEN FailedWith(r, InvalidQuestionIndex)
            ELSE IF Answered(r.session.answers, r.question_index)
            THEN FailedWith(r, DuplicateAnswer)
            ELSE Succeeded(r)

\* C6 witness: a submit with an out-of-range index to a completed session
\* failed with SessionNotActive without any call to the quiz provider.
C6_Witness ==
    \E r \in Calls :
        /\ r.op = "submit" /\ r.session.status = COMPLETED
        /\ ~InRange(r.question_index, 2)
        /\ FailedWith(r, SessionNotActive) /\ r.quiz_calls = 0

\* C7: a submit-answer call that read the session as completed or abandoned
\* fails with SessionNotActive and issues no append, whatever its index and
\* answer text.
C7_InactiveSessionRejectsSubmit ==
    \A r \in Calls :
        (r.op = "submit" /\ r.session.status \in {COMPLETED, ABANDONED}) =>
            FailedWith(r, SessionNotActive) /\ r.writes = 0

\* C7 witness: a submit with a valid index read an abandoned session and was
\* rejected, and the session holds no answer.
C7_Witness ==
    \E r \in Calls : \E s \in DOMAIN store :
        /\ r.op = "submit" /\ r.session_id = s /\ r.session.status = ABANDONED
        /\ InRange(r.question_index, 2)
        /\ FailedWith(r, SessionNotActive)
        /\ store[s].answers = <<>>

\* C8 as stated: a submit-answer call that read an in_progress session with an
\* answer at its index always fails with DuplicateAnswer and writes nothing.
C8_AnsweredIndexAlwaysDuplicate ==
    \A r \in Calls :
        (/\ r.op = "submit" /\ Done(r)
         /\ r.session.status = IN_PROGRESS
         /\ Answered(r.session.answers, r.question_index)) =>
            FailedWith(r, DuplicateAnswer) /\ r.writes = 0

\* C8 as amended: a submit-answer call that read an in_progress session with
\* an answer at its index always fails and issues no append; it fails with
\* DuplicateAnswer when the quiz provider resolved the quiz, and with the
\* provider's failure otherwise.
C8_AnsweredIndexRejected ==
    \A r \in Calls :
        (/\ r.op = "submit"
         /\ r.session.status = IN_PROGRESS
         /\ Answered(r.session.answers, r.question_index)) =>
            /\ r.writes = 0
            /\ r.pc \in {"get_quiz", "done"}
            /\ Done(r) => IF Quiz(r.quiz) # NoQuiz THEN FailedWith(r, DuplicateAnswer)
                          ELSE QuizFailure(r)

\* C8 witness: a resubmission was rejected with DuplicateAnswer and the stored
\* session is still the one the call read.
C8_Witness ==
    \E r \in Calls : \E s \in DOMAIN store :
        /\ r.op = "submit" /\ r.session_id = s
        /\ FailedWith(r, DuplicateAnswer)
        /\ Len(r.session.answers) = 1
        /\ store[s] = r.session

\* C9: a submit-answer call on an in_progress session whose quiz resolved, with
\* an index that is negative or not below the number of questions, fails with
\* InvalidQuestionIndex and issues no append.
C9_OutOfRangeIndexRejected ==
    \A r \in Calls :
        (/\ r.op = "submit"
         /\ r.session.status = IN_PROGRESS
         /\ Quiz(r.quiz) # NoQuiz
         /\ ~InRange(r.question_index, Len(Quiz(r.quiz).questions))) =>
            FailedWith(r, InvalidQuestionIndex) /\ r.writes = 0

\* C9 witness: one submit with a negative index and one with an index equal to
\* the number of questions were both rejected.
C9_Witness ==
    /\ \E r \in Calls :
          r.op = "submit" /\ r.question_index < 0 /\ FailedWith(r, InvalidQuestionIndex)
    /\ \E r \in Calls :
          /\ r.op = "submit" /\ Quiz(r.quiz) # NoQuiz
          /\ r.question_index = Len(Quiz(r.quiz).questions)
          /\ FailedWith(r, InvalidQuestionIndex)

\* C10: every answer stored in a session of a catalogued quiz has an index in
\* [0, total_questions), and the session's distinct answered indexes number at
\* most total_questions.
C10_StoredIndexesInRange ==
    \A s \in DOMAIN store :
        store[s].quiz_id \in DOMAIN Catalog =>
            /\ \A k \in 1..Len(store[s].answers) :
                  InRange(store[s].answers[k].question_index, TotalQuestions(store[s]))
            /\ Cardinality(IndexesOf(store[s].answers)) <= TotalQuestions(store[s])

\* C10 witness: a session with every question of its quiz answered.
C10_Witness ==
    \E s \in DOMAIN store :
        /\ store[s].quiz_id \in DOMAIN Catalog
        /\ Cardinality(IndexesOf(store[s].answers)) = TotalQuestions(store[s])

\* the call record r leaves the bag in this step (the call moved on from r)
Leaves(r) == CopiesIn(r, calls') < CopiesIn(r, calls)

\* the call record r2 arrives in the bag in this step (a call moved on to r2)
Arrives(r2) == CopiesIn(r2, calls') > CopiesIn(r2, calls)

\* the question a submit-answer call addressed, for an index in range
QuestionOf(r) == Quiz(r.quiz).questions[r.question_index + 1]

\* C11: the append step of a submit-answer call adds to its session exactly
\* one Answer with the requested index, the text exactly as submitted and the
\* computed verdict, and changes nothing else in the store (status, score,
\* completed_at, the earlier answers, the other sessions); no other step of a
\* submit-answer call changes the store, and a successful call has written
\* once and returns the stored verdict.
C11_SubmitAppendsOneAnswer ==
    [][\A r2 \in BagToSet(calls') :
          (r2.op = "submit" /\ Arrives(r2)) =>
             /\ IF r2.pc = "refetch"
                THEN /\ r2.session_id \in DOMAIN store
                     /\ store' = [store EXCEPT ![r2.session_id].answers =
                                     Append(@, [question_index |-> r2.question_index,
                                                user_answer |-> r2.user_answer,
                                                is_correct |-> r2.answer.is_correct])]
                ELSE store' = store
             /\ Succeeded(r2) =>
                   /\ r2.writes = 1
                   /\ r2.result.is_correct = r2.answer.is_correct]_vars

\* C11 witness: a successful submit of " TRUE " to question 1 of a session
\* that already held an answer; the session holds both answers, the new one
\* with its surrounding blanks and capitals, and is still in_progress.
C11_Witness ==
    \E r \in Calls : \E s \in DOMAIN store :
        /\ r.op = "submit" /\ Succeeded(r) /\ r.session_id = s
        /\ r.user_answer = TRUEpadded /\ r.question_index = 1
        /\ store[s].answers =
              << [question_index |-> 0, user_answer |-> rome, is_correct |-> TRUE],
                 [question_index |-> 1, user_answer |-> TRUEpadded, is_correct |-> TRUE] >>
        /\ store[s].status = IN_PROGRESS
        /\ store[s].score = NoScore /\ store[s].completed_at = NoTime

\* the pairs of an upper-case letter and its lower-case form
CasePairs ==
    {<<"R", "r">>, <<"M", "m">>, <<"T", "t">>, <<"U", "u">>, <<"E", "e">>, <<"F", "f">>}

\* two characters are the same letter, case aside
SameLetter(x, y) == x = y \/ <<x, y>> \in CasePairs \/ <<y, x>> \in CasePairs

\* two texts are equal, case aside
SameIgnoringCase(a, b) ==
    Len(a) = Len(b) /\ \A k \in 1..Len(a) : SameLetter(a[k], b[k])

\* the text from its first to its last character that is not whitespace
Trimmed(s) ==
    LET solid == {k \in 1..Len(s) : ~IsSpace(s[k])}
    IN  IF solid = {} THEN <<>>
        ELSE SubSeq(s, CHOOSE k \in solid : \A j \in solid : k <= j,
                       CHOOSE k \in solid : \A j \in solid : k >= j)

\* a submitted text matches a question's correct answer: the text and the
\* textual form of the correct answer are equal once trimmed, case aside
Matches(user_answer, question) ==
    SameIgnoringCase(Trimmed(user_answer), Trimmed(Str(question.correct_answer)))

\* C12: the verdict a submit-answer call computes, stores and returns is true
\* exactly when the submitted text and the textual form of the question's
\* correct answer are equal after trimming surrounding whitespace and
\* lower-casing, for string and boolean correct answers alike.
C12_VerdictIsNormalizedEquality ==
    /\ \A r \in Calls :
          (r.op = "submit" /\ (r.pc \in {"add_answer", "refetch"} \/ Succeeded(r))) =>
             /\ r.answer.is_correct = Matches(r.user_answer, QuestionOf(r))
             /\ Succeeded(r) => r.result.is_correct = Matches(r.user_answer, QuestionOf(r))
    /\ \A s \in DOMAIN store : \A k \in 1..Len(store[s].answers) :
          LET a == store[s].answers[k]
          IN  a.is_correct =
                 Matches(a.user_answer, Catalog[store[s].quiz_id].questions[a.question_index + 1])

\* C12 witness: " TRUE " was judged correct for the boolean question whose
\* correct value is true, and incorrect for the question whose answer is Rome.
C12_Witness ==
    /\ \E r \in Calls :
          /\ r.op = "submit" /\ Succeeded(r) /\ r.user_answer = TRUEpadded
          /\ QuestionOf(r).type = "boolean" /\ QuestionOf(r).correct_answer = BoolAnswer(TRUE)
          /\ r.result.is_correct
    /\ \E r \in Calls :
          /\ r.op = "submit" /\ Succeeded(r) /\ r.user_answer = TRUEpadded
          /\ QuestionOf(r).correct_answer = StrAnswer(Rome)
          /\ ~r.result.is_correct

\* C13: when a submit-answer call returns success, its questions_answered is
\* the number of answers the session holds at the fetch made after the append
\* and is at least 1, its current_score is the score of those answers, which
\* include the answer the call appended, and its total_questions is the number
\* of questions of the session's quiz.
C13_ScoreFromPostAppendState ==
    [][\A r2 \in BagToSet(calls') :
          (r2.op = "submit" /\ Succeeded(r2) /\ Arrives(r2)) =>
             LET fetched == store[r2.session_id].answers
             IN  /\ r2.result.questions_answered = Len(fetched)
                 /\ r2.result.questions_answered >= 1
                 /\ r2.result.questions_answered > Len(r2.session.answers)
                 /\ \E k \in 1..Len(fetched) : fetched[k] = r2.answer
                 /\ r2.result.score[1] * Len(fetched) =
                       r2.result.score[2] * 100 * CorrectCount(fetched)
                 /\ r2.result.total_questions =
                       Len(Catalog[store[r2.session_id].quiz_id].questions)]_vars

\* C13 witness: the second answer of a session was wrong; the submit returned
\* questions_answered = 2 of 2 questions and a current score of 50.
C13_Witness ==
    \E r \in Calls :
        /\ r.op = "submit" /\ Succeeded(r)
        /\ Len(r.session.answers) = 1
        /\ ~r.result.is_correct
        /\ r.result.questions_answered = 2
        /\ r.result.total_questions = 2
        /\ r.result.score = <<50, 1>>

\* the longest answer collection calculate_score is applied to directly
MaxAnswers == 4

\* the answer collections of up to MaxAnswers answers, by their verdicts
AnswerLists ==
    UNION {[1..n -> {MakeAnswer(0, rome, v) : v \in BOOLEAN}] : n \in 0..MaxAnswers}

\* the number of answers of a collection that are marked correct
RECURSIVE NumCorrect(_)
NumCorrect(answers) ==
    IF answers = <<>> THEN 0
    ELSE (IF Head(answers).is_correct THEN 1 ELSE 0) + NumCorrect(Tail(answers))

\* score is the value the specification gives for the answers: 0 for none,
\* otherwise correct / count * 100; within [0, 100]; 100 exactly for a
\* non-empty collection of correct answers, 0 exactly when none is correct
IsScoreOf(score, answers) ==
    /\ score # NoScore
    /\ score[2] > 0
    /\ answers = <<>> => score = <<0, 1>>
    /\ answers # <<>> => score[1] * Len(answers) = score[2] * 100 * NumCorrect(answers)
    /\ 0 <= score[1] /\ score[1] <= 100 * score[2]
    /\ score = <<100, 1>> <=> (answers # <<>> /\ NumCorrect(answers) = Len(answers))
    /\ score = <<0, 1>> <=> NumCorrect(answers) = 0

\* calculate_score on every answer collection of up to MaxAnswers answers
ScoreOnAnswerLists == \A answers \in AnswerLists : IsScoreOf(calculate_score(answers), answers)

\* C14: calculate_score returns exactly 0 for an empty collection and
\* otherwise correct / count * 100, always within [0, 100], 100 exactly when
\* the collection is non-empty and all its answers are correct and 0 exactly
\* when none is; this holds for every collection of up to MaxAnswers answers
\* and for every score an operation derived: the final score of a completion
\* and the score a get-status reported for a session without a persisted one.
C14_ScoreIsPercentageCorrect ==
    /\ ScoreOnAnswerLists
    /\ \A r \in Calls :
          /\ (r.op = "complete" /\ r.pc # "done") => IsScoreOf(r.final_score, r.session.answers)
          /\ (r.op = "complete" /\ Succeeded(r)) => IsScoreOf(r.result.score, r.session.answers)
          /\ (r.op = "status" /\ Succeeded(r) /\ r.session.score = NoScore) =>
                IsScoreOf(r.result.score, r.session.answers)

\* C14 witness: the completion of a session that held one answer, a correct
\* one, derived and returned a final score of 100.
C14_Witness ==
    \E c \in Calls :
        /\ c.op = "complete" /\ Succeeded(c)
        /\ Len(c.session.answers) = 1 /\ c.session.answers[1].is_correct
        /\ c.result.score = <<100, 1>>

\* a successful call observed the answer set the session s holds now: no
\* answer was appended since the call's observation
ObservedCurrentAnswers(r, s) ==
    /\ r.op \in {"submit", "status", "complete"} /\ Succeeded(r)
    /\ r.session_id = s
    /\ r.result.questions_answered = Len(store[s].answers)

\* C15: for the answer set a session holds, the three observation points
\* agree: the score a successful submit, get-status or complete-session
\* returned for that answer set is the score get-status reports for the stored
\* session, the score a submit derives from it and, for a completed session,
\* the score persisted by the completion.
C15_ObservationPointsAgree ==
    \A s \in DOMAIN store : \A r \in Calls :
        ObservedCurrentAnswers(r, s) =>
            /\ r.result.score = StatusScore(store[s])
            /\ r.result.score = calculate_score(store[s].answers)
            /\ store[s].status = COMPLETED => r.result.score = store[s].score

\* the session a successful start-session call must have created
CreatedBy(r) ==
    [user_id |-> r.user_id, quiz_id |-> r.quiz_id,
     book_id |-> Catalog[r.quiz_id].book_id,
     answers |-> <<>>, score |-> NoScore, started_at |-> r.result.started_at,
     completed_at |-> NoTime, status |-> IN_PROGRESS]

\* C16: a start-session call whose quiz resolved returns success unless the
\* store fails; the step in which it returns success adds exactly one session
\* to the store, with status in_progress, no answers, no score, no
\* completed_at, the caller's user and quiz ids and the book_id of the resolved
\* quiz, and changes no other session; the call returns the id the store
\* assigned to that session, the quiz id, total_questions equal to the quiz's
\* number of questions and status in_progress. No other step of a
\* start-session call changes the store.
C16_StartCreatesOneSession ==
    [][\A r2 \in BagToSet(calls') :
          (r2.op = "start" /\ Arrives(r2)) =>
             /\ IF Succeeded(r2)
                THEN /\ store' = Append(store, CreatedBy(r2))
                     /\ r2.result.session_id = Len(store')
                     /\ r2.result.session_id \notin DOMAIN store
                     /\ r2.result.quiz_id = r2.quiz_id
                     /\ r2.result.total_questions = Len(Catalog[r2.quiz_id].questions)
                     /\ r2.result.status = IN_PROGRESS
                     /\ r2.writes = 1
                ELSE store' = store
             /\ (r2.provider = "ok" /\ Done(r2)) =>
                   Succeeded(r2) \/ FailedWith(r2, StoreUnavailable)]_vars

\* C16 witness: a start-session call returned the id of a session stored
\* next to an older one; the new session is as the call created it.
C16_Witness ==
    \E r \in Calls :
        /\ r.op = "start" /\ Succeeded(r)
        /\ r.result.session_id = 2 /\ Len(store) = 2
        /\ store[2] = CreatedBy(r)
        /\ store[1] # store[2]

\* C17: a start-session call for a quiz id that is not in the catalog, which
\* the provider reports as not found, fails with QuizNotFound at its first
\* step, never invokes the store's create and leaves the store unchanged.
C17_MissingQuizCreatesNothing ==
    [][\A r2 \in BagToSet(calls') :
          (/\ r2.op = "start" /\ Arrives(r2)
           /\ r2.quiz_id \notin DOMAIN Catalog /\ r2.provider = "notfound") =>
             /\ FailedWith(r2, QuizNotFound)
             /\ r2.writes = 0
             /\ store' = store]_vars

\* C17 witness: a start-session call for the unknown quiz id failed with
\* QuizNotFound and no stored session refers to that quiz.
C17_Witness ==
    \E r \in Calls :
        /\ r.op = "start" /\ r.quiz_id = QMissing /\ r.provider = "notfound"
        /\ FailedWith(r, QuizNotFound)
        /\ \A s \in DOMAIN store : store[s].quiz_id # QMissing

\* C18: a start-session call whose quiz lookup met an unreachable or erroring
\* provider fails with UpstreamUnavailable, which is neither QuizNotFound nor
\* the failure of a store error, never invokes the store's create and leaves
\* the store unchanged.
C18_ProviderErrorIsUpstreamUnavailable ==
    [][\A r2 \in BagToSet(calls') :
          (r2.op = "start" /\ Arrives(r2) /\ r2.provider = "error") =>
             /\ FailedWith(r2, UpstreamUnavailable)
             /\ ~FailedWith(r2, QuizNotFound)
             /\ ~FailedWith(r2, StoreUnavailable)
             /\ r2.writes = 0
             /\ store' = store]_vars

\* C18 witness: with an empty store, a start-session call for the catalogued
\* quiz failed with UpstreamUnavailable and one for the unknown quiz failed
\* with QuizNotFound; the store is still empty.
C18_Witness ==
    /\ store = <<>>
    /\ \E r \in Calls :
          /\ r.op = "start" /\ r.quiz_id = Q1 /\ r.provider = "error"
          /\ FailedWith(r, UpstreamUnavailable)
    /\ \E r \in Calls :
          r.op = "start" /\ r.quiz_id = QMissing /\ FailedWith(r, QuizNotFound)

\* C19: no step of a get-status call changes the store or issues a write,
\* whatever the session id and the store hold; a call for an id under which no
\* session is stored returns at once, failing with SessionNotFound (or, for a
\* well-formed id only, with the store's failure when the read itself raised).
C19_GetStatusIsReadOnly ==
    [][\A r2 \in BagToSet(calls') :
          (r2.op = "status" /\ Arrives(r2)) =>
             /\ store' = store
             /\ r2.writes = 0
             /\ (r2.quiz_calls = 0 /\ db_get_session(store, r2.session_id) = NoSession) =>
                   \/ FailedWith(r2, SessionNotFound)
                   \/ IsValidId(r2.session_id) /\ FailedWith(r2, StoreUnavailable)]_vars

\* C19 witness: one get-status returned the view of a stored session, another
\* failed with SessionNotFound for a well-formed id that names no session, and
\* the stored session is the one the first call read.
C19_Witness ==
    /\ \E r \in Calls :
          /\ r.op = "status" /\ Succeeded(r)
          /\ r.session_id \in DOMAIN store /\ store[r.session_id] = r.session
    /\ \E r \in Calls :
          /\ r.op = "status" /\ FailedWith(r, SessionNotFound)
          /\ IsValidId(r.session_id) /\ r.session_id \notin DOMAIN store

\* C20: the read of a get-status call takes the stored session as it is, and
\* a successful call reports that session's status and number of answers and,
\* as score, the persisted score when the session is completed and otherwise
\* the score derived from the session's answers: 0 for a session without
\* answers, 100 for one whose only answer is correct.
C20_StatusScorePersistedOrDerived ==
    [][\A r2 \in BagToSet(calls') :
          (r2.op = "status" /\ Arrives(r2)) =>
             /\ (r2.pc = "get_quiz") => r2.session = store[r2.session_id]
             /\ Succeeded(r2) =>
                   /\ r2.result.status = r2.session.status
                   /\ r2.result.questions_answered = Len(r2.session.answers)
                   /\ IF r2.session.status = COMPLETED
                      THEN r2.result.score = r2.session.score
                      ELSE /\ IsScoreOf(r2.result.score, r2.session.answers)
                           /\ r2.session.answers = <<>> => r2.result.score = <<0, 1>>
                           /\ (Len(r2.session.answers) = 1 /\ r2.session.answers[1].is_correct)
                                 => r2.result.score = <<100, 1>>]_vars

\* C20 witness: get-status on an in_progress session after one correct answer
\* reported a score of 100, one answer and status in_progress.
C20_Witness ==
    \E r \in Calls :
        /\ r.op = "status" /\ Succeeded(r)
        /\ r.session.status = IN_PROGRESS /\ r.session.score = NoScore
        /\ Len(r.session.answers) = 1 /\ r.session.answers[1].is_correct
        /\ r.result.score = <<100, 1>>
        /\ r.result.questions_answered = 1
        /\ r.result.status = IN_PROGRESS

C22_StatusSurvivesProviderFailure ==
    \A r \in Calls :
        (/\ r.op = "status" /\ Done(r)
         /\ r.session # NoSession
         /\ r.provider \in {"notfound", "error"}) =>
            Succeeded(r) /\ r.result.total_questions = 0

\* C23: a complete-session call returns at its first step, without issuing
\* the completion update and leaving the store unchanged, with SessionNotFound
\* when its read found no session under the id and with SessionNotActive when
\* the session it read is completed or abandoned.
C23_CompleteRejectsMissingOrInactive ==
    [][\A r2 \in BagToSet(calls') :
          (r2.op = "complete" /\ Arrives(r2) /\ r2.writes = 0) =>
             LET doc == db_get_session(store, r2.session_id)
             IN  /\ store' = store
                 /\ (~r2.store_error /\ doc = NoSession) =>
                       FailedWith(r2, SessionNotFound) /\ r2.pc = "done"
                 /\ (~r2.store_error /\ doc.status \in {COMPLETED, ABANDONED}) =>
                       FailedWith(r2, SessionNotActive) /\ r2.pc = "done"
                 /\ (FailedWith(r2, SessionNotFound) \/ FailedWith(r2, SessionNotActive)) =>
                       r2.success = ""]_vars

\* C23 witness: a complete-session call on a session completed by an earlier
\* call failed with SessionNotActive, and the stored session is as it read it.
C23_Witness ==
    \E r \in Calls : \E s \in DOMAIN store :
        /\ r.op = "complete" /\ r.session_id = s
        /\ r.session.status = COMPLETED
        /\ FailedWith(r, SessionNotActive) /\ r.writes = 0
        /\ store[s] = r.session

\* C24: the step in which the completion update of a complete-session call
\* applies is the call's one store write: it sets the session's status to
\* completed, its score to the score derived from the answers of the
\* in_progress session the call read, and its completed_at to the instant of
\* the update, and changes nothing else; a successful call returns that score
\* as final_score (0 when the session had no answer), the number of those
\* answers as questions_answered and status completed.
C24_CompletionSetsStatusScoreTime ==
    [][\A r2 \in BagToSet(calls') :
          (r2.op = "complete" /\ Arrives(r2)) =>
             /\ (r2.pc = "get_quiz") =>
                   /\ r2.session_id \in DOMAIN store
                   /\ r2.session.status = IN_PROGRESS
                   /\ IsScoreOf(r2.final_score, r2.session.answers)
                   /\ now' >= now
                   /\ store' = [store EXCEPT ![r2.session_id] =
                                   [@ EXCEPT !.status = COMPLETED,
                                             !.score = r2.final_score,
                                             !.completed_at = now']]
                   /\ r2.writes = 1
             /\ Succeeded(r2) =>
                   /\ store' = store
                   /\ r2.writes = 1 /\ r2.success = "true"
                   /\ r2.result.score = r2.final_score
                   /\ r2.session.answers = <<>> => r2.result.score = <<0, 1>>
                   /\ r2.result.questions_answered = Len(r2.session.answers)
                   /\ r2.result.status = COMPLETED]_vars

\* C24 witness: a complete-session call on a session without answers returned
\* final_score 0, no answers and status completed, and the stored session is
\* completed with score 0 and a completion time.
C24_Witness ==
    \E r \in Calls : \E s \in DOMAIN store :
        /\ r.op = "complete" /\ Succeeded(r) /\ r.session_id = s
        /\ r.result.score = <<0, 1>> /\ r.result.questions_answered = 0
        /\ r.result.status = COMPLETED
        /\ store[s].status = COMPLETED /\ store[s].score = <<0, 1>>
        /\ store[s].completed_at # NoTime
        /\ store[s].answers = <<>>

\* C25: a complete-session call to which the store reported that the
\* completion update did not apply has failed with CompletionConflict; every
\* complete-session call that returned success was told the update applied.
C25_UnappliedUpdateIsConflict ==
    \A r \in Calls :
        r.op = "complete" =>
            /\ r.success = "false" => FailedWith(r, CompletionConflict)
            /\ Succeeded(r) => r.success = "true"
            /\ FailedWith(r, CompletionConflict) => r.success = "false"

\* C25 witness: of two overlapping completions of one session the second
\* update rewrote the values already stored, the store reported it as not
\* applied, and the call failed with CompletionConflict.
C25_Witness ==
    \E r \in Calls : \E s \in DOMAIN store :
        /\ r.op = "complete" /\ r.session_id = s
        /\ r.success = "false" /\ FailedWith(r, CompletionConflict)
        /\ store[s].status = COMPLETED

\* C26: the store's completion update is guarded by status: when it runs on a
\* session that is missing or whose stored status is not in_progress, it
\* reports that it did not apply and leaves the stored sessions unchanged.
C26_CompletionUpdateGuardedByStatus ==
    [][\A r \in Calls : \A r2 \in Calls' :
          ( /\ r.op = "complete" /\ r.pc = "db_complete" /\ Leaves(r)
            /\ r2.op = "complete" /\ r2.session_id = r.session_id
            /\ r2.writes = r.writes + 1 /\ Arrives(r2)
            /\ ~r2.store_error
            /\ \/ r.session_id \notin DOMAIN store
               \/ store[r.session_id].status # IN_PROGRESS )
          => /\ r2.success = "false"
             /\ store' = store]_vars

\* C27: a complete-session call that read an in_progress session, whose update
\* applied, and whose quiz lookup found no quiz or could not reach the
\* provider, has succeeded with total_questions = 0.
C27_CompleteSurvivesProviderFailure ==
    \A r \in Calls :
        ( /\ r.op = "complete" /\ Done(r)
          /\ r.session # NoSession /\ r.session.status = IN_PROGRESS
          /\ r.success = "true" /\ r.quiz_calls = 1
          /\ r.provider \in {"notfound", "error"} )
        => /\ Succeeded(r)
           /\ r.result.total_questions = 0

\* C28: a submit-answer call whose quiz lookup found no quiz has failed with
\* QuizNotFound, and one whose lookup could not reach the provider has failed
\* with UpstreamUnavailable, whatever its question index and whatever the
\* session already holds; it issued no store write.
C28_SubmitNeverDegrades ==
    \A r \in Calls :
        ( /\ r.op = "submit" /\ r.quiz_calls = 1
          /\ r.provider \in {"notfound", "error"} )
        => /\ Done(r)
           /\ r.provider = "notfound" => FailedWith(r, QuizNotFound)
           /\ r.provider = "error" => FailedWith(r, UpstreamUnavailable)
           /\ r.writes = 0
           /\ r.answer = IdleCall.answer

\* C28 witness: on a session whose quiz is not in the catalog, a submit with an
\* out-of-range index failed with QuizNotFound and a submit with index 0 failed
\* with UpstreamUnavailable; the session holds no answer.
C28_Witness ==
    \E r1, r2 \in Calls : \E s \in DOMAIN store :
        /\ r1.op = "submit" /\ r1.session_id = s /\ r1.question_index = -1
        /\ r1.provider = "notfound" /\ FailedWith(r1, QuizNotFound)
        /\ r2.op = "submit" /\ r2.session_id = s /\ r2.question_index = 0
        /\ r2.provider = "error" /\ FailedWith(r2, UpstreamUnavailable)
        /\ store[s].answers = <<>>

\* a submit-answer call that failed in the re-fetch after its append
FailedAtRefetch(r) ==
    /\ r.op = "submit" /\ Done(r)
    /\ r.step = "refetch" /\ r.store_error

\* a submit-answer call to the session and index of r1 whose read of the
\* in_progress session already showed an answer at that index
LaterSubmit(r1, r2) ==
    /\ r2.op = "submit" /\ r2.session_id = r1.session_id
    /\ r2.question_index = r1.question_index
    /\ r2.session # NoSession /\ r2.session.status = IN_PROGRESS
    /\ Answered(r2.session.answers, r1.question_index)

\* the answer of r is among the stored answers of its session
StillStored(r) ==
    /\ r.session_id \in DOMAIN store
    /\ \E k \in 1..Len(store[r.session_id].answers) :
          store[r.session_id].answers[k] = r.answer

\* C29 as stated: a submit-answer call whose append succeeded and whose re-fetch
\* failed has failed, its answer is still stored, and every later submit to the
\* same index has failed with DuplicateAnswer.
C29_LaterSubmitAlwaysDuplicate ==
    \A r1 \in Calls :
        FailedAtRefetch(r1) =>
            /\ FailedWith(r1, StoreUnavailable)
            /\ StillStored(r1)
            /\ \A r2 \in Calls :
                  LaterSubmit(r1, r2) /\ Done(r2) => FailedWith(r2, DuplicateAnswer)

\* C29 as amended: a submit-answer call whose append succeeded and whose
\* re-fetch failed has failed, its answer is still stored, and every later
\* submit to the same index issues no append and fails: with DuplicateAnswer
\* when the quiz provider resolved the quiz, with the provider's failure
\* otherwise.
C29_AppendSurvivesFailedRefetch ==
    \A r1 \in Calls :
        FailedAtRefetch(r1) =>
            /\ FailedWith(r1, StoreUnavailable) /\ r1.writes = 1
            /\ StillStored(r1)
            /\ \A r2 \in Calls :
                  LaterSubmit(r1, r2) =>
                     /\ r2.writes = 0
                     /\ r2.pc \in {"get_quiz", "done"}
                     /\ Done(r2) => IF r2.provider = "ok"
                                    THEN FailedWith(r2, DuplicateAnswer)
                                    ELSE QuizFailure(r2)

\* C29 witness: a submit failed in its re-fetch, the one answer it appended is
\* stored, and a later submit to the same index failed with DuplicateAnswer.
C29_Witness ==
    \E r1, r2 \in Calls :
        /\ FailedAtRefetch(r1) /\ StillStored(r1)
        /\ Len(store[r1.session_id].answers) = 1
        /\ LaterSubmit(r1, r2) /\ FailedWith(r2, DuplicateAnswer)

\* C30: every start-session, submit-answer and complete-session call has issued
\* at most one store write, and a call in which a store operation raised is
\* done and failed: it returned no result.
C30_NoRetryNoSwallowedStoreError ==
    \A r \in Calls :
        r.op \in {"start", "submit", "complete"} =>
            /\ r.writes <= 1
            /\ r.store_error =>
                  /\ Done(r) /\ ~Succeeded(r)
                  /\ FailedWith(r, StoreUnavailable)
                  /\ r.result = StoreError

\* C30 witness: the create of a start-session call and the completion update of
\* a complete-session call both raised; each call wrote once and failed, and
\* the store holds the one in_progress session it started with.
C30_Witness ==
    \E r1, r2 \in Calls :
        /\ r1.op = "start" /\ r1.store_error /\ r1.writes = 1
        /\ FailedWith(r1, StoreUnavailable)
        /\ r2.op = "complete" /\ r2.store_error /\ r2.writes = 1
        /\ FailedWith(r2, StoreUnavailable)
        /\ Len(store) = 1 /\ store[1].status = IN_PROGRESS

\* the sequence a is an initial segment of the sequence b
IsPrefix(a, b) == Len(a) <= Len(b) /\ SubSeq(b, 1, Len(a)) = a

\* C31: in every step the answers of every stored session before the step are
\* a prefix of its answers after the step: each stored Answer keeps its place,
\* question index, text and verdict, and none is removed.
C31_AnswersAppendOnly ==
    [][\A s \in DOMAIN store :
          /\ s \in DOMAIN store'
          /\ IsPrefix(store[s].answers, store'[s].answers)]_vars

\* C31 witness: a session holds two answers to different questions, each
\* appended by a submit-answer call that returned success.
C31_Witness ==
    \E s \in DOMAIN store : \E r1, r2 \in Calls :
        /\ Len(store[s].answers) = 2
        /\ r1.op = "submit" /\ r2.op = "submit" /\ Succeeded(r1) /\ Succeeded(r2)
        /\ r1.session_id = s /\ r2.session_id = s
        /\ store[s].answers = <<r1.answer, r2.answer>>
        /\ r1.question_index # r2.question_index

\* the fields of a stored session that identify it
Identity(doc) == <<doc.user_id, doc.quiz_id, doc.book_id, doc.started_at>>

\* C32: in every step every stored session stays stored under its id with the
\* same user_id, quiz_id, book_id and started_at; a step of start-session
\* changes no session that was already stored, and a step that changes a
\* stored session is a step of a submit-answer or complete-session call on that
\* very session.
C32_OtherSessionsUntouched ==
    [][\A s \in DOMAIN store :
          /\ s \in DOMAIN store'
          /\ Identity(store'[s]) = Identity(store[s])
          /\ store'[s] # store[s] =>
                \E r \in Calls :
                    /\ Leaves(r) /\ r.op \in {"submit", "complete"}
                    /\ r.session_id = s
                    /\ \A s2 \in DOMAIN store : s2 # s => store'[s2] = store[s2]
                    /\ Len(store') = Len(store)]_vars

\* C32 witness: the store holds two sessions; a start-session call created the
\* second, a complete-session call completed the first, and the second is
\* still the in_progress session that was created.
C32_Witness ==
    \E r1, r2 \in Calls :
        /\ Len(store) = 2
        /\ r1.op = "start" /\ Succeeded(r1) /\ r1.result.session_id = 2
        /\ r2.op = "complete" /\ Succeeded(r2) /\ r2.session_id = 1
        /\ store[1].status = COMPLETED
        /\ store[2] = r1.session /\ store[2].status = IN_PROGRESS

\* C33: in every step the answers of a stored session whose status is
\* completed stay as they are: no submit-answer appends to a completed
\* session, whenever it read the session.
C33_CompletedAnswersFrozen ==
    [][\A s \in DOMAIN store :
          store[s].status = COMPLETED =>
             store'[s].answers = store[s].answers]_vars

\* C34: the score stored on every completed session is the score derived from
\* the answers stored on it.
C34_CompletedScoreMatchesAnswers ==
    \A s \in DOMAIN store :
        store[s].status = COMPLETED =>
            /\ store[s].score # NoScore
            /\ store[s].score = calculate_score(store[s].answers)

\* C35: a complete-session call that returned a failure is not a call whose
\* update changed the stored session.
C35_FailedCompleteChangedNothing ==
    \A r \in Calls :
        (r.op = "complete" /\ Done(r) /\ ~Succeeded(r)) => r.success # "true"

\* the only complete-session call that wrote to its session
OnlyCompletion(r) ==
    /\ CopiesIn(r, calls) = 1
    /\ \A r2 \in Calls :
          (r2.op = "complete" /\ r2.session_id = r.session_id /\ r2.writes > 0) => r2 = r

\* C36: the completed_at a successful complete-session call returned is the
\* completed_at its update stored on the session.
C36_ReturnedTimeIsPersistedTime ==
    \A r \in Calls :
        (r.op = "complete" /\ Succeeded(r) /\ OnlyCompletion(r)) =>
            r.result.completed_at = store[r.session_id].completed_at

DigitChar(n) == <<"0", "1", "2", "3", "4", "5", "6", "7", "8", "9">>[n + 1]

\* str(status_code), str(question_index)
IntText(i) ==
    IF i < 0 THEN <<"-">> \o <<DigitChar(-i)>>
    ELSE IF i < 10 THEN <<DigitChar(i)>>
    ELSE <<DigitChar(i \div 100), DigitChar((i \div 10) % 10), DigitChar(i % 10)>>

\* the session id as the caller wrote it: a 24-digit hex string, or not one
SessionIdText(session_id) ==
    IF session_id = BadId THEN <<"b", "a", "d", "-", "i", "d">>
    ELSE <<"6", "5", "f", "0", "c", "0", "f", "f", "e", "e", "6", "5", "f", "0", "c", "0", "f", "f", "e", "e", "0", "0", "0">> \o <<DigitChar(session_id)>>

\* the quiz id as the caller or the session wrote it
QuizIdText(quiz_id) == IF quiz_id = Q1 THEN <<"Q", "1">> ELSE <<"Q", "X">>

\* str(HTTPStatusError) up to the end of the status line:
\* "Server error '{status_code} {reason_phrase}' for url '{url}' ..."
HTTPStatusErrorText(upstream) ==
    <<"S", "e", "r", "v", "e", "r", " ", "e", "r", "r", "o", "r", " ", "'">> \o IntText(upstream.status) \o <<" ">> \o upstream.reason \o <<"'", " ", "f", "o", "r", " ", "u", "r", "l">>

\* str(QuizClientError) as get_quiz raises it
QuizClientErrorText(upstream) ==
    CASE upstream.kind = "request_error" ->
           <<"F", "a", "i", "l", "e", "d", " ", "t", "o", " ", "c", "o", "n", "n", "e", "c", "t", " ", "t", "o", " ", "q", "u", "i", "z", "-", "g", "e", "n", "e", "r", "a", "t", "o", "r", " ", "s", "e", "r", "v", "i", "c", "e", ":", " ", "A", "l", "l", " ", "c", "o", "n", "n", "e", "c", "t", "i", "o", "n", " ", "a", "t", "t", "e", "m", "p", "t", "s", " ", "f", "a", "i", "l", "e", "d">>
      [] upstream.kind # "request_error" /\ RaisesForStatus(upstream) ->
           <<"F", "a", "i", "l", "e", "d", " ", "t", "o", " ", "g", "e", "t", " ", "q", "u", "i", "z", ":", " ">> \o HTTPStatusErrorText(upstream)
      [] OTHER -> <<"U", "n", "e", "x", "p", "e", "c", "t", "e", "d", " ", "e", "r", "r", "o", "r", ":", " ", "'", "q", "u", "e", "s", "t", "i", "o", "n", "s", "'">>

\* str(e) of the exception a store call raised
StoreErrorText == <<"c", "o", "n", "n", "e", "c", "t", "i", "o", "n", " ", "c", "l", "o", "s", "e", "d">>

\* the prefix of the generic `except Exception` clause of each operation
WrappedAs(op) ==
    CASE op = "start" -> <<"F", "a", "i", "l", "e", "d", " ", "t", "o", " ", "s", "t", "a", "r", "t", " ", "s", "e", "s", "s", "i", "o", "n", ":", " ">>
      [] op = "submit" -> <<"F", "a", "i", "l", "e", "d", " ", "t", "o", " ", "s", "u", "b", "m", "i", "t", " ", "a", "n", "s", "w", "e", "r", ":", " ">>
      [] op = "status" -> <<"F", "a", "i", "l", "e", "d", " ", "t", "o", " ", "g", "e", "t", " ", "s", "e", "s", "s", "i", "o", "n", " ", "s", "t", "a", "t", "u", "s", ":", " ">>
      [] OTHER -> <<"F", "a", "i", "l", "e", "d", " ", "t", "o", " ", "c", "o", "m", "p", "l", "e", "t", "e", " ", "s", "e", "s", "s", "i", "o", "n", ":", " ">>

\* str(SessionServiceError) for each failure of each operation
Message(op, kind, session_id, quiz_id, question_index, upstream) ==
    CASE kind = SessionNotFound ->
           <<"S", "e", "s", "s", "i", "o", "n", " ">> \o SessionIdText(session_id) \o <<" ", "n", "o", "t", " ", "f", "o", "u", "n", "d">>
      [] kind = SessionNotActive ->
           <<"S", "e", "s", "s", "i", "o", "n", " ">> \o SessionIdText(session_id) \o <<" ", "i", "s", " ", "n", "o", "t", " ", "i", "n", " ", "p", "r", "o", "g", "r", "e", "s", "s">>
      [] kind = QuizNotFound /\ op = "start" ->
           WrappedAs(op) \o <<"Q", "u", "i", "z", " ">> \o QuizIdText(quiz_id) \o <<" ", "n", "o", "t", " ", "f", "o", "u", "n", "d">>
      [] kind = QuizNotFound /\ op # "start" ->
           <<"Q", "u", "i", "z", " ">> \o QuizIdText(quiz_id) \o <<" ", "n", "o", "t", " ", "f", "o", "u", "n", "d">>
      [] kind = InvalidQuestionIndex ->
           <<"I", "n", "v", "a", "l", "i", "d", " ", "q", "u", "e", "s", "t", "i", "o", "n", " ", "i", "n", "d", "e", "x", ":", " ">> \o IntText(question_index)
      [] kind = DuplicateAnswer ->
           <<"Q", "u", "e", "s", "t", "i", "o", "n", " ">> \o IntText(question_index) \o <<" ", "a", "l", "r", "e", "a", "d", "y", " ", "a", "n", "s", "w", "e", "r", "e", "d">>
      [] kind = CompletionConflict ->
           <<"F", "a", "i", "l", "e", "d", " ", "t", "o", " ", "u", "p", "d", "a", "t", "e", " ", "s", "e", "s", "s", "i", "o", "n", " ">> \o SessionIdText(session_id)
      [] kind = UpstreamUnavailable /\ op = "start" ->
           <<"F", "a", "i", "l", "e", "d", " ", "t", "o", " ", "v", "e", "r", "i", "f", "y", " ", "q", "u", "i", "z", ":", " ">> \o QuizClientErrorText(upstream)
      [] kind = UpstreamUnavailable /\ op # "start" ->
           WrappedAs(op) \o QuizClientErrorText(upstream)
      [] kind = StoreUnavailable -> WrappedAs(op) \o StoreErrorText
      [] OTHER -> WrappedAs(op) \o <<"l", "i", "s", "t", " ", "i", "n", "d", "e", "x", " ", "o", "u", "t", " ", "o", "f", " ", "r", "a", "n", "g", "e">>

\* sub in s
Contains(s, sub) ==
    \E i \in 1..(Len(s) - Len(sub) + 1) : SubSeq(s, i, i + Len(sub) - 1) = sub

\* the status the endpoint's `except SessionServiceError` clause answers with
status_code(message) ==
    IF Contains(Lower(message), <<"n", "o", "t", " ", "f", "o", "u", "n", "d">>) THEN 404 ELSE 400

\* the failures each operation of SessionService raises
Failures(op) ==
    CASE op = "start" -> {QuizNotFound, UpstreamUnavailable, StoreUnavailable}
      [] op = "status" -> {SessionNotFound, UpstreamUnavailable, StoreUnavailable}
      [] op = "submit" -> {SessionNotFound, SessionNotActive, QuizNotFound,
                           InvalidQuestionIndex, DuplicateAnswer,
                           UpstreamUnavailable, StoreUnavailable, Unexpected}
      [] OTHER -> {SessionNotFound, SessionNotActive, CompletionConflict,
                   UpstreamUnavailable, StoreUnavailable}

\* the arguments with which a failure of a kind can be raised
SessionIdsOf(kind) == IF kind = SessionNotFound THEN {BadId, 1} ELSE {1}
QuizIdsOf(kind) ==
    CASE kind = QuizNotFound -> {QMissing}
      [] kind = UpstreamUnavailable -> QuizIds
      [] OTHER -> {Q1}
QuestionIndexesOf(kind) ==
    CASE kind = InvalidQuestionIndex -> {-1, 2}
      [] kind = DuplicateAnswer -> {0, 1}
      [] OTHER -> {0}
UpstreamsOf(kind, quiz_id) ==
    IF kind = UpstreamUnavailable
    THEN {u \in Upstream(quiz_id) : get_quiz(u) = "error"}
    ELSE {NoUpstream}

BoundaryCall ==
    [fn |-> "", op |-> "", error |-> "", session_id |-> BadId, quiz_id |-> "",
     question_index |-> 0, upstream |-> NoUpstream, outcome |-> "", quiz |-> NoQuiz,
     message |-> <<>>, status_code |-> 0]

\* one call of quiz_client.get_quiz(quiz_id)
quiz_client_get_quiz ==
    /\ CanInvoke
    /\ \E quiz_id \in QuizIds : \E upstream \in Upstream(quiz_id) :
          LET outcome == get_quiz(upstream)
          IN  Invoke([BoundaryCall EXCEPT
                        !.fn = "get_quiz", !.quiz_id = quiz_id, !.upstream = upstream,
                        !.outcome = outcome,
                        !.quiz = IF outcome = "ok" THEN ParseQuiz(QuizData[quiz_id])
                                 ELSE NoQuiz,
                        !.message = IF outcome = "error" THEN QuizClientErrorText(upstream)
                                    ELSE <<>>])
    /\ UNCHANGED <<store, now, raced>>

\* one request to a session endpoint whose service call raised SessionServiceError
endpoint_failure ==
    /\ CanInvoke
    /\ \E op \in {"start", "status", "submit", "complete"} : \E kind \in Failures(op) :
       \E session_id \in SessionIdsOf(kind), quiz_id \in QuizIdsOf(kind),
          question_index \in QuestionIndexesOf(kind) :
       \E upstream \in UpstreamsOf(kind, quiz_id) :
          LET message == Message(op, kind, session_id, quiz_id, question_index, upstream)
          IN  Invoke([BoundaryCall EXCEPT
                        !.fn = "endpoint", !.op = op, !.error = kind,
                        !.session_id = session_id, !.quiz_id = quiz_id,
                        !.question_index = question_index, !.upstream = upstream,
                        !.message = message, !.status_code = status_code(message)])
    /\ UNCHANGED <<store, now, raced>>

BoundaryInit ==
    /\ store = <<>>
    /\ calls = EmptyBag
    /\ now = 0
    /\ raced = {}

BoundaryNext == quiz_client_get_quiz \/ endpoint_failure

BoundarySpec == BoundaryInit /\ [][BoundaryNext]_vars

\* C37: every failure a session endpoint answers is mapped by its kind:
\* SessionNotFound and QuizNotFound to 404; SessionNotActive,
\* InvalidQuestionIndex, DuplicateAnswer, CompletionConflict,
\* UpstreamUnavailable and a store failure to 400.
C37_StatusByFailureKind ==
    \A r \in Calls :
        r.fn = "endpoint" =>
            /\ r.error \in {SessionNotFound, QuizNotFound} => r.status_code = 404
            /\ r.error \in {SessionNotActive, InvalidQuestionIndex, DuplicateAnswer,
                            CompletionConflict, UpstreamUnavailable, StoreUnavailable}
                  => r.status_code = 400

\* the upstream outcomes get_quiz has to report as unavailable
UpstreamFailed(u) ==
    \/ u.kind = "request_error"
    \/ u.kind = "response" /\ u.status \notin (200..299) \cup {404}
    \/ u.kind = "response" /\ u.status \in 200..299 /\ u.body # "quiz"

\* C39: every call of the quiz client ended in exactly one of three results:
\* a Quiz, for a successful response carrying the quiz document, whose
\* questions are the document's and whose questions_count is their number;
\* None for an HTTP 404; a QuizClientError, never None, for any other HTTP
\* error status, a failed request or an unexpected error.
C39_ClientClassifiesUpstream ==
    \A r \in Calls :
        r.fn = "get_quiz" =>
            LET u == r.upstream
            IN  /\ r.outcome \in {"ok", "notfound", "error"}
                /\ r.outcome = "ok" <=>
                      (u.kind = "response" /\ u.status \in 200..299 /\ u.body = "quiz")
                /\ r.outcome = "ok" =>
                      /\ r.quiz # NoQuiz
                      /\ r.quiz.questions = QuizData[r.quiz_id].questions
                      /\ r.quiz.questions_count = Len(r.quiz.questions)
                /\ r.outcome = "notfound" <=> (u.kind = "response" /\ u.status = 404)
                /\ r.outcome = "error" <=> UpstreamFailed(u)
                /\ r.outcome = "error" <=> r.message # <<>>
                /\ r.outcome # "ok" => r.quiz = NoQuiz

\* C39 witness: one call got the quiz of two questions, another met an HTTP 500
\* and raised QuizClientError.
C39_Witness ==
    \E r1, r2 \in Calls :
        /\ r1.fn = "get_quiz" /\ r1.outcome = "ok" /\ r1.quiz.questions_count = 2
        /\ r2.fn = "get_quiz" /\ r2.upstream.status = 500 /\ r2.outcome = "error"
        /\ Contains(r2.message, ReasonServerError)

====
